---- MODULE Spec2Model ----
(***************************************************************************)
(* ssh-api: remote command execution over SSH behind two front-ends, an    *)
(* HTTP API (src/api/api.py) and an MCP JSON-RPC stdio server              *)
(* (src/mcp/server.py), both delegating to exec_ssh (src/exec_ssh.py).     *)
(*                                                                         *)
(* Values are Python objects as json.loads produces them, tagged with      *)
(* their type.  A string is a sequence of text chunks (each chunk an       *)
(* indivisible piece of text) followed by `pad` filler characters "x";     *)
(* the filler lets a string have the lengths the validator's limits are    *)
(* about (253, 4096, 8192) without spelling out every character.           *)
(***************************************************************************)
EXTENDS Integers, Sequences, FiniteSets, TLC

VARIABLES
    mode,           \* which program runs: "core", "http" or "mcp"
    apiKeys,        \* API_KEYS, read from the environment at process start
    pc,             \* position of the running handler
    req,            \* the request being handled (HTTP request, JSON-RPC value)
    data,           \* the request's argument map (host, command, ...)
    paramsVerdict,  \* what validate_ssh_parameters returned (NotRun before)
    dirVerdict,     \* what validate_ssh_directory returned (NotRun before)
    fs,             \* what the filesystem answers about the ssh_dir path
    kwargs,         \* the keyword arguments of the exec_ssh call in progress
    argv,           \* the argument vector exec_ssh built (<<>> before)
    child,          \* the SSH client process of the current request
    res,            \* what exec_ssh returned (Null before)
    resp,           \* the last response sent (Null before)
    consumed,       \* the kinds of the stdin lines read so far, in order
    stdout,         \* for each line written to stdout, the input line it answers
    handleCalls     \* how many times handle() was called

vars ==
    <<mode, apiKeys, pc, req, data, paramsVerdict, dirVerdict, fs, kwargs, argv,
      child, res, resp, consumed, stdout, handleCalls>>

----------------------------------------------------------------------------
(* Python values *)

Absent == [t |-> "absent"]
Null == [t |-> "null"]
NotRun == [t |-> "notrun"]
PyInt(n) == [t |-> "int", n |-> n]
PyBool(b) == [t |-> "bool", n |-> IF b THEN 1 ELSE 0]
\* a float with a fractional part: k + 0.5
PyFloat(k) == [t |-> "float", n |-> k]
PyDict == [t |-> "dict"]
PyList(items) == [t |-> "list", items |-> items]
Str(chunks) == [t |-> "str", s |-> chunks, pad |-> 0]

RECURSIVE ChunkLen(_)
ChunkLen(chunks) ==
    IF chunks = <<>> THEN 0 ELSE Len(Head(chunks)) + ChunkLen(Tail(chunks))

\* the chunks followed by as many filler characters as make `total` characters
Padded(chunks, total) ==
    [t |-> "str", s |-> chunks, pad |-> total - ChunkLen(chunks)]

Fill(n) == [i \in 1..n |-> "x"]

IsStr(v) == v.t = "str"
\* isinstance(v, int): bool is a subclass of int in Python
IsInt(v) == v.t \in {"int", "bool"}
IsBool(v) == v.t = "bool"
IsList(v) == v.t = "list"

\* len(v) of a string
PyLen(v) == ChunkLen(v.s) + v.pad

Whitespace == {" ", "\t"}

\* len(v.strip()) == 0
IsBlank(v) == v.pad = 0 /\ \A i \in 1..Len(v.s) : v.s[i] \in Whitespace

\* bool(v), the truth value `if v:` / `not v` tests
Truthy(v) ==
    CASE v.t \in {"null", "absent"} -> FALSE
      [] v.t \in {"int", "bool"} -> v.n # 0
      [] v.t = "float" -> TRUE
      [] v.t = "str" -> PyLen(v) > 0
      [] v.t = "list" -> Len(v.items) > 0
      [] v.t = "map" -> \E k \in DOMAIN v.m : v.m[k] # Absent
      [] OTHER -> TRUE

\* a + b on strings
Concat(a, b) ==
    IF a.pad = 0
    THEN [t |-> "str", s |-> a.s \o b.s, pad |-> b.pad]
    ELSE [t |-> "str", s |-> a.s \o Fill(a.pad) \o b.s, pad |-> b.pad]

\* str(v)
PyStr(v) ==
    CASE v.t = "str" -> v
      [] v.t = "int" -> Str(<<ToString(v.n)>>)
      [] v.t = "bool" -> Str(<<IF v.n = 1 THEN "True" ELSE "False">>)
      [] v.t = "null" -> Str(<<"None">>)
      [] OTHER -> Str(<<"<", v.t, ">">>)

\* s.startswith(prefix); no prefix of the program contains the filler
StartsWith(v, prefix) ==
    Len(v.s) >= Len(prefix) /\ SubSeq(v.s, 1, Len(prefix)) = prefix

\* needle in s; no needle of the program contains the filler
Contains(v, needle) ==
    \E i \in 1..Len(v.s) :
        i + Len(needle) - 1 <= Len(v.s)
        /\ SubSeq(v.s, i, i + Len(needle) - 1) = needle

\* d.get(k): None when the key is missing
Get(d, k) == IF d[k] = Absent THEN Null ELSE d[k]

\* d.get(k, default)
GetDefault(d, k, default) == IF d[k] = Absent THEN default ELSE d[k]

----------------------------------------------------------------------------
(* validate_ssh_parameters: api.py and mcp/server.py hold the same text *)

MAX_COMMAND_LENGTH == 8192
MAX_HOST_LENGTH == 253
MAX_USER_LENGTH == 32
MIN_TIMEOUT == 1
MAX_TIMEOUT == 3600
MAX_SSH_DIR_LENGTH == 4096

Fields ==
    {"host", "command", "user", "port", "timeout", "ssh_dir",
     "strict_host_key_checking", "proxy_jump", "allocate_tty", "extra_opts"}

MsgMissingHost == Str(<<"Missing required parameter: host">>)
MsgMissingCommand == Str(<<"Missing required parameter: command">>)
MsgHostType == Str(<<"Host must be a non-empty string">>)
MsgHostLength ==
    Str(<<"Host length exceeds maximum of ", ToString(MAX_HOST_LENGTH), " characters">>)
MsgCommandType == Str(<<"Command must be a non-empty string">>)
MsgCommandLength ==
    Str(<<"Command length exceeds maximum of ", ToString(MAX_COMMAND_LENGTH), " characters">>)
MsgUser ==
    Str(<<"User must be a string with maximum ", ToString(MAX_USER_LENGTH), " characters">>)
MsgPort == Str(<<"Port must be an integer between 1 and 65535">>)
MsgTimeout ==
    Str(<<"Timeout must be an integer between ", ToString(MIN_TIMEOUT), " and ",
          ToString(MAX_TIMEOUT), " seconds">>)
MsgSshDir ==
    Str(<<"SSH directory path must be a string with maximum ",
          ToString(MAX_SSH_DIR_LENGTH), " characters">>)
MsgStrict == Str(<<"strict_host_key_checking must be one of: yes, no, accept-new">>)
MsgProxyJump ==
    Str(<<"Proxy jump must be a string with maximum ", ToString(MAX_HOST_LENGTH), " characters">>)
MsgTty == Str(<<"allocate_tty must be a boolean">>)
MsgExtraArray == Str(<<"extra_opts must be an array">>)
MsgExtraItem ==
    Str(<<"Each extra_opts item must be a string with maximum 256 characters">>)

StrictChoices == {Str(<<"yes">>), Str(<<"no">>), Str(<<"accept-new">>)}

\* the optional checks with the port check moved in front of the user check
ValidateOptionalPortFirst(args) ==
    LET user == Get(args, "user")
        port == Get(args, "port")
        timeout == GetDefault(args, "timeout", PyInt(60))
    IN  IF port # Null /\ (~IsInt(port) \/ port.n < 1 \/ port.n > 65535)
        THEN MsgPort
        ELSE IF user # Null /\ (~IsStr(user) \/ PyLen(user) > MAX_USER_LENGTH)
        THEN MsgUser
        ELSE IF ~IsInt(timeout) \/ timeout.n < MIN_TIMEOUT \/ timeout.n > MAX_TIMEOUT
        THEN MsgTimeout
        ELSE Null

\* the checks on the optional parameters, lines 64-107 of api.py
ValidateOptional(args) ==
    LET user == Get(args, "user")
        port == Get(args, "port")
        timeout == GetDefault(args, "timeout", PyInt(60))
        ssh_dir == Get(args, "ssh_dir")
        strict_host_key_checking == Get(args, "strict_host_key_checking")
        proxy_jump == Get(args, "proxy_jump")
        allocate_tty == Get(args, "allocate_tty")
        extra_opts == Get(args, "extra_opts")
    IN  IF user # Null /\ (~IsStr(user) \/ PyLen(user) > MAX_USER_LENGTH)
        THEN MsgUser
        ELSE IF port # Null /\ (~IsInt(port) \/ port.n < 1 \/ port.n > 65535)
        THEN MsgPort
        ELSE IF ~IsInt(timeout) \/ timeout.n < MIN_TIMEOUT \/ timeout.n > MAX_TIMEOUT
        THEN MsgTimeout
        ELSE IF ssh_dir # Null /\ (~IsStr(ssh_dir) \/ PyLen(ssh_dir) > MAX_SSH_DIR_LENGTH)
        THEN MsgSshDir
        ELSE IF strict_host_key_checking # Null
                /\ strict_host_key_checking \notin StrictChoices
        THEN MsgStrict
        ELSE IF proxy_jump # Null
                /\ (~IsStr(proxy_jump) \/ PyLen(proxy_jump) > MAX_HOST_LENGTH)
        THEN MsgProxyJump
        ELSE IF allocate_tty # Null /\ ~IsBool(allocate_tty)
        THEN MsgTty
        ELSE IF extra_opts # Null /\ ~IsList(extra_opts)
        THEN MsgExtraArray
        ELSE IF extra_opts # Null
                /\ \E i \in 1..Len(extra_opts.items) :
                      ~IsStr(extra_opts.items[i]) \/ PyLen(extra_opts.items[i]) > 256
        THEN MsgExtraItem
        ELSE Null

\* None when valid, else the message of the first check that fails
validate_ssh_parameters(args) ==
    LET host == args["host"]
        command == args["command"]
    IN  IF ~Truthy(Get(args, "host"))
        THEN MsgMissingHost
        ELSE IF ~Truthy(Get(args, "command"))
        THEN MsgMissingCommand
        ELSE IF ~IsStr(host) \/ IsBlank(host)
        THEN MsgHostType
        ELSE IF PyLen(host) > MAX_HOST_LENGTH
        THEN MsgHostLength
        ELSE IF ~IsStr(command) \/ IsBlank(command)
        THEN MsgCommandType
        ELSE IF PyLen(command) > MAX_COMMAND_LENGTH
        THEN MsgCommandLength
        ELSE ValidateOptional(args)

----------------------------------------------------------------------------
(* validate_ssh_directory *)

\* os.path.expanduser("~"): the home directory of the user running the server
HOME == <<"/", "root">>

\* os.path.expanduser(path): "~" and "~/..." take the home directory; a
\* "~name" prefix of a user the password database does not know is kept
expanduser(v) ==
    IF Len(v.s) >= 1 /\ v.s[1] = "~" /\ (Len(v.s) = 1 \/ v.s[2] = "/")
    THEN [t |-> "str", s |-> HOME \o Tail(v.s), pad |-> v.pad]
    ELSE v

allowed_prefixes == {<<"/", "home", "/">>, <<"/", "Users", "/">>, HOME}

\* what the filesystem answers: os.path.isdir(path), os.access(path, R_OK),
\* os.path.exists(path/config)
FsStates ==
    {[isdir |-> FALSE, readable |-> FALSE, config |-> FALSE],
     [isdir |-> TRUE, readable |-> FALSE, config |-> FALSE],
     [isdir |-> TRUE, readable |-> TRUE, config |-> FALSE],
     [isdir |-> TRUE, readable |-> TRUE, config |-> TRUE]}

NoFs == [isdir |-> FALSE, readable |-> FALSE, config |-> FALSE]

\* the answers the filesystem may give a handler: the directory check asks it,
\* and a handler that does not reach the check sees none
FsAnswers(asked) == IF asked THEN FsStates ELSE {NoFs}

MsgNotAllowed == Str(<<"SSH directory path not allowed">>)

validate_ssh_directory(ssh_dir, f) ==
    IF ~Truthy(ssh_dir)
    THEN Null
    ELSE LET expanded_path == expanduser(ssh_dir)
         IN  IF (Contains(ssh_dir, <<".", ".">>) \/ StartsWith(ssh_dir, <<"/">>))
                /\ ~\E prefix \in allowed_prefixes : StartsWith(expanded_path, prefix)
             THEN MsgNotAllowed
             ELSE IF ~f.isdir
             THEN Concat(Str(<<"SSH directory does not exist: ">>), expanded_path)
             ELSE IF ~f.readable
             THEN Concat(Str(<<"SSH directory is not readable: ">>), expanded_path)
             ELSE Null

----------------------------------------------------------------------------
(* exec_ssh: the argument vector *)

EPHEMERAL_DEFAULTS ==
    <<Str(<<"-o">>), Str(<<"BatchMode=yes">>),
      Str(<<"-o">>), Str(<<"UserKnownHostsFile=/dev/null">>),
      Str(<<"-o">>), Str(<<"StrictHostKeyChecking=no">>),
      Str(<<"-o">>), Str(<<"CheckHostIP=no">>),
      Str(<<"-o">>), Str(<<"LogLevel=ERROR">>)>>

\* os.path.join(dir, "config")
ConfigPath(dir) ==
    IF Len(dir.s) > 0 /\ dir.pad = 0 /\ dir.s[Len(dir.s)] = "/"
    THEN Concat(dir, Str(<<"config">>))
    ELSE Concat(dir, Str(<<"/", "config">>))

\* the connection target, line 39
Target(kw) ==
    IF Truthy(kw.user)
    THEN Concat(Concat(PyStr(kw.user), Str(<<"@">>)), PyStr(kw.host))
    ELSE kw.host

\* opts, lines 18-37
ExecSshOpts(kw, f) ==
    LET ssh_dir == IF Truthy(kw.ssh_dir) THEN expanduser(kw.ssh_dir) ELSE kw.ssh_dir
    IN  EPHEMERAL_DEFAULTS
        \o (IF Truthy(kw.port) THEN <<Str(<<"-p">>), PyStr(kw.port)>> ELSE <<>>)
        \o (IF Truthy(kw.ssh_dir) /\ f.isdir /\ f.config
            THEN <<Str(<<"-F">>), ConfigPath(ssh_dir)>> ELSE <<>>)
        \o (IF Truthy(kw.strict_host_key_checking)
            THEN <<Str(<<"-o">>),
                   Concat(Str(<<"StrictHostKeyChecking=">>),
                          PyStr(kw.strict_host_key_checking))>>
            ELSE <<>>)
        \o (IF Truthy(kw.proxy_jump) THEN <<Str(<<"-J">>), kw.proxy_jump>> ELSE <<>>)
        \o (IF Truthy(kw.allocate_tty) THEN <<Str(<<"-t">>)>> ELSE <<>>)
        \o (IF Truthy(kw.extra_opts)
            THEN [i \in 1..Len(kw.extra_opts.items) |-> PyStr(kw.extra_opts.items[i])]
            ELSE <<>>)

\* the argument vector without the "--" separator
ExecSshArgvNoSeparator(kw, f) ==
    <<Str(<<"ssh">>)>> \o ExecSshOpts(kw, f) \o <<Target(kw), kw.command>>

\* the list handed to subprocess.Popen, line 43
ExecSshArgv(kw, f) ==
    <<Str(<<"ssh">>)>> \o ExecSshOpts(kw, f) \o <<Target(kw), Str(<<"--">>), kw.command>>

\* the keyword arguments both adapters pass to exec_ssh, given the ssh_dir
\* they resolved
Kwargs(d, ssh_dir) ==
    [host |-> d["host"],
     command |-> d["command"],
     user |-> Get(d, "user"),
     port |-> Get(d, "port"),
     ssh_dir |-> ssh_dir,
     strict_host_key_checking |-> Get(d, "strict_host_key_checking"),
     proxy_jump |-> Get(d, "proxy_jump"),
     allocate_tty |-> PyBool(Truthy(Get(d, "allocate_tty"))),
     extra_opts |-> Get(d, "extra_opts"),
     timeout |-> PyInt(GetDefault(d, "timeout", PyInt(60)).n)]

----------------------------------------------------------------------------
(* Inputs *)

\* how many fields of an input map differ from the minimal valid request
MaxDeviations == 2

BaseRequest ==
    [f \in Fields |->
        CASE f = "host" -> Str(<<"example.com">>)
          [] f = "command" -> Str(<<"uptime">>)
          [] OTHER -> Absent]

\* ssh_dir strings
SshDirPaths ==
    {Str(<<"~", "/", ".", "ssh">>),
     Str(<<"/", "home", "/", "alice", "/", ".", "ssh">>),
     Str(<<"/", "etc", "/", "ssh">>),
     Str(<<"/", "home", "/", ".", ".", "/", "etc">>),
     Str(<<"~", "/", ".", ".", "/", "etc">>),
     Str(<<".", ".", "/", "etc">>),
     Str(<<"keys">>),
     Str(<<"/", "root", "kit">>),
     Str(<<"/", "home", "/", "a", ".", ".", "b">>)}

FieldValues(f) ==
    CASE f = "host" ->
            {Absent, Null, Str(<<>>), Str(<<" ">>), PyInt(5), PyInt(0),
             Str(<<"example.com">>), Padded(<<"h">>, MAX_HOST_LENGTH),
             Padded(<<"h">>, MAX_HOST_LENGTH + 1)}
      [] f = "command" ->
            {Absent, Str(<<>>), Str(<<" ", "\t">>), PyList(<<Str(<<"ls">>)>>),
             Str(<<"uptime">>), Str(<<"ls", " ", "-l", ";", "id">>),
             Padded(<<"c">>, MAX_COMMAND_LENGTH),
             Padded(<<"c">>, MAX_COMMAND_LENGTH + 1)}
      [] f = "user" ->
            {Absent, Null, Str(<<>>), Str(<<"alice">>), PyInt(5),
             Padded(<<"u">>, MAX_USER_LENGTH), Padded(<<"u">>, MAX_USER_LENGTH + 1)}
      [] f = "port" ->
            {Absent, Null, PyInt(0), PyInt(1), PyInt(22), PyInt(65535), PyInt(65536),
             PyInt(-1), PyBool(TRUE), PyBool(FALSE), Str(<<"22">>), PyFloat(22)}
      [] f = "timeout" ->
            {Absent, Null, PyInt(0), PyInt(MIN_TIMEOUT), PyInt(60), PyInt(MAX_TIMEOUT),
             PyInt(MAX_TIMEOUT + 1), PyInt(-5), PyBool(TRUE), Str(<<"60">>), PyFloat(59)}
      [] f = "ssh_dir" ->
            {Absent, Null, Str(<<>>), PyInt(5),
             Padded(<<"/", "home", "/">>, MAX_SSH_DIR_LENGTH),
             Padded(<<"/", "home", "/">>, MAX_SSH_DIR_LENGTH + 1)}
            \cup SshDirPaths
      [] f = "strict_host_key_checking" ->
            {Absent, Null, Str(<<"yes">>), Str(<<"no">>), Str(<<"accept-new">>),
             Str(<<"maybe">>), Str(<<>>), PyBool(TRUE), PyInt(1)}
      [] f = "proxy_jump" ->
            {Absent, Null, Str(<<>>), Str(<<"jump.example.com">>), PyInt(5),
             Padded(<<"j">>, MAX_HOST_LENGTH), Padded(<<"j">>, MAX_HOST_LENGTH + 1)}
      [] f = "allocate_tty" ->
            {Absent, Null, PyBool(TRUE), PyBool(FALSE), PyInt(1), PyInt(0), Str(<<"yes">>)}
      [] f = "extra_opts" ->
            {Absent, Null, PyList(<<>>), PyList(<<Str(<<"-v">>)>>),
             PyList(<<Str(<<"-v">>), Str(<<"-4">>)>>),
             PyList(<<Padded(<<"-o">>, 256)>>), PyList(<<Padded(<<"-o">>, 257)>>),
             PyList(<<Str(<<"-v">>), PyInt(5)>>), Str(<<"-v">>), PyDict}

\* every (field, value) pair an input map may hold
FieldValuePairs == UNION {{<<f, v>> : v \in FieldValues(f)} : f \in Fields}

\* the input maps that differ from BaseRequest in at most k fields
RECURSIVE Overrides(_)
Overrides(k) ==
    IF k = 0
    THEN {BaseRequest}
    ELSE {[d EXCEPT ![p[1]] = p[2]] : d \in Overrides(k - 1), p \in FieldValuePairs}

Inputs == Overrides(MaxDeviations)

----------------------------------------------------------------------------
(* The validator, the directory check and the argument construction applied *)
(* to one input map, in the order every adapter applies them.              *)

NoChild ==
    [state |-> "none", rc |-> 0, out |-> Str(<<>>), err |-> Str(<<>>),
     reaped |-> FALSE, pipes |-> FALSE]

EmptyArgs == [f \in Fields |-> Absent]

CoreInit ==
    /\ mode = "core"
    /\ apiKeys = <<>>
    /\ pc = "params"
    /\ req = Null
    /\ data \in Inputs
    /\ paramsVerdict = NotRun
    /\ dirVerdict = NotRun
    /\ fs = NoFs
    /\ kwargs = Null
    /\ argv = <<>>
    /\ child = NoChild
    /\ res = Null
    /\ resp = Null
    /\ consumed = <<>>
    /\ stdout = <<>>
    /\ handleCalls = 0

ApplyValidateParams ==
    /\ mode = "core" /\ pc = "params"
    /\ paramsVerdict' = validate_ssh_parameters(data)
    /\ pc' = "dir"
    /\ UNCHANGED <<mode, apiKeys, req, data, dirVerdict, fs, kwargs, argv, child,
                   res, resp, consumed, stdout, handleCalls>>

\* validate_ssh_directory on the ssh_dir of a request the validator accepted
ApplyValidateDir ==
    /\ mode = "core" /\ pc = "dir"
    /\ paramsVerdict = Null
    /\ IF Truthy(Get(data, "ssh_dir"))
       THEN \E f \in FsStates :
                /\ fs' = f
                /\ dirVerdict' = validate_ssh_directory(data["ssh_dir"], f)
       ELSE UNCHANGED <<fs, dirVerdict>>
    /\ pc' = "argv"
    /\ UNCHANGED <<mode, apiKeys, req, data, paramsVerdict, kwargs, argv, child,
                   res, resp, consumed, stdout, handleCalls>>

\* exec_ssh's argument construction on a request both checks let through
ApplyExecSshArgv ==
    /\ mode = "core" /\ pc = "argv"
    /\ dirVerdict \in {Null, NotRun}
    /\ kwargs' = Kwargs(data, IF Truthy(Get(data, "ssh_dir"))
                              THEN expanduser(data["ssh_dir"])
                              ELSE Get(data, "ssh_dir"))
    /\ argv' = ExecSshArgv(kwargs', fs)
    /\ pc' = "done"
    /\ UNCHANGED <<mode, apiKeys, req, data, paramsVerdict, dirVerdict, fs, child,
                   res, resp, consumed, stdout, handleCalls>>

CoreNext == ApplyValidateParams \/ ApplyValidateDir \/ ApplyExecSshArgv

SpecCore == CoreInit /\ [][CoreNext]_vars

----------------------------------------------------------------------------
(* Properties of the validator, the directory check and the argument vector *)

Present(v) == v # Absent /\ v # Null

\* the constraints of the validator in their documented order, each with
\* whether the input violates it and the message that names it
Constraints(d) ==
    LET host == d["host"]
        command == d["command"]
        user == d["user"]
        port == d["port"]
        timeout == d["timeout"]
        ssh_dir == d["ssh_dir"]
        strict == d["strict_host_key_checking"]
        proxy_jump == d["proxy_jump"]
        tty == d["allocate_tty"]
        extra == d["extra_opts"]
    IN  << [fails |-> ~Truthy(host), msg |-> MsgMissingHost],
           [fails |-> ~Truthy(command), msg |-> MsgMissingCommand],
           [fails |-> ~IsStr(host) \/ IsBlank(host), msg |-> MsgHostType],
           [fails |-> IsStr(host) /\ PyLen(host) > 253, msg |-> MsgHostLength],
           [fails |-> ~IsStr(command) \/ IsBlank(command), msg |-> MsgCommandType],
           [fails |-> IsStr(command) /\ PyLen(command) > 8192, msg |-> MsgCommandLength],
           [fails |-> Present(user) /\ (~IsStr(user) \/ PyLen(user) > 32),
            msg |-> MsgUser],
           [fails |-> Present(port) /\ (~IsInt(port) \/ port.n < 1 \/ port.n > 65535),
            msg |-> MsgPort],
           [fails |-> timeout # Absent
                      /\ (~IsInt(timeout) \/ timeout.n < 1 \/ timeout.n > 3600),
            msg |-> MsgTimeout],
           [fails |-> Present(ssh_dir) /\ (~IsStr(ssh_dir) \/ PyLen(ssh_dir) > 4096),
            msg |-> MsgSshDir],
           [fails |-> Present(strict) /\ strict \notin StrictChoices, msg |-> MsgStrict],
           [fails |-> Present(proxy_jump)
                      /\ (~IsStr(proxy_jump) \/ PyLen(proxy_jump) > 253),
            msg |-> MsgProxyJump],
           [fails |-> Present(tty) /\ ~IsBool(tty), msg |-> MsgTty],
           [fails |-> Present(extra) /\ ~IsList(extra), msg |-> MsgExtraArray],
           [fails |-> IsList(extra)
                      /\ \E i \in 1..Len(extra.items) :
                            ~IsStr(extra.items[i]) \/ PyLen(extra.items[i]) > 256,
            msg |-> MsgExtraItem] >>

\* the indices of the constraints in c that fail
Failing(c) == {i \in 1..Len(c) : c[i].fails}

\* C2: validate_ssh_parameters returns "valid" (None) exactly when no
\* constraint fails, and otherwise the one message of the first failing
\* constraint in the documented order, never that of a later one.
C2_FirstFailingConstraintReported ==
    paramsVerdict # NotRun =>
        LET c == Constraints(data)
            failing == Failing(c)
        IN  paramsVerdict =
                IF failing = {} THEN Null
                ELSE c[CHOOSE i \in failing : \A j \in failing : i <= j].msg

\* two constraints fail (user, then port) and the earlier one is reported
C2_Witness ==
    /\ paramsVerdict = MsgUser
    /\ Cardinality(Failing(Constraints(data))) = 2
    /\ data["port"] = PyInt(0)

\* C3: every accepted input has a non-blank string host (<= 253) and
\* command (<= 8192), an integer timeout in [1, 3600] (60 when absent), an
\* integer port in [1, 65535] when present, user <= 32, proxy_jump <= 253,
\* ssh_dir <= 4096 and extra_opts entries that are strings <= 256; and
\* every integer timeout in [1, 3600] passes the timeout check.
C3_AcceptedMeetsDataModel ==
    LET timeout == GetDefault(data, "timeout", PyInt(60))
        port == data["port"]
        user == data["user"]
        proxy_jump == data["proxy_jump"]
        ssh_dir == data["ssh_dir"]
        extra == data["extra_opts"]
    IN  /\ paramsVerdict = Null =>
            /\ IsStr(data["host"]) /\ ~IsBlank(data["host"])
            /\ PyLen(data["host"]) <= 253
            /\ IsStr(data["command"]) /\ ~IsBlank(data["command"])
            /\ PyLen(data["command"]) <= 8192
            /\ timeout.t = "int" /\ timeout.n >= 1 /\ timeout.n <= 3600
            /\ Present(port) => port.t = "int" /\ port.n >= 1 /\ port.n <= 65535
            /\ Present(user) => IsStr(user) /\ PyLen(user) <= 32
            /\ Present(proxy_jump) => IsStr(proxy_jump) /\ PyLen(proxy_jump) <= 253
            /\ Present(ssh_dir) => IsStr(ssh_dir) /\ PyLen(ssh_dir) <= 4096
            /\ Present(extra) =>
                  /\ IsList(extra)
                  /\ \A i \in 1..Len(extra.items) :
                        IsStr(extra.items[i]) /\ PyLen(extra.items[i]) <= 256
        /\ (paramsVerdict # NotRun
            /\ timeout.t = "int" /\ timeout.n >= 1 /\ timeout.n <= 3600)
           => paramsVerdict # MsgTimeout

\* C6: the argument vector is ["ssh"] + options + [target, "--", command];
\* the command is the last token, "--" the one before it, the target the
\* one before that; the extra_opts entries are standalone tokens, in order,
\* right before the target; every field value is exactly one token.
C6_ArgvShape ==
    pc = "done" =>
        LET n == Len(argv)
            user == Get(data, "user")
            extra == Get(data, "extra_opts")
            k == IF Truthy(extra) THEN Len(extra.items) ELSE 0
            port == Get(data, "port")
            jump == Get(data, "proxy_jump")
            strict == Get(data, "strict_host_key_checking")
            cfg == Truthy(Get(data, "ssh_dir")) /\ fs.isdir /\ fs.config
            nOpts == Len(EPHEMERAL_DEFAULTS)
                     + (IF Truthy(port) THEN 2 ELSE 0)
                     + (IF cfg THEN 2 ELSE 0)
                     + (IF Truthy(strict) THEN 2 ELSE 0)
                     + (IF Truthy(jump) THEN 2 ELSE 0)
                     + (IF Truthy(Get(data, "allocate_tty")) THEN 1 ELSE 0)
                     + k
        IN  /\ n = 1 + nOpts + 3
            /\ argv[1] = Str(<<"ssh">>)
            /\ argv[n] = data["command"]
            /\ argv[n - 1] = Str(<<"--">>)
            /\ argv[n - 2] =
                   IF Truthy(user)
                   THEN Concat(Concat(user, Str(<<"@">>)), data["host"])
                   ELSE data["host"]
            /\ \A i \in 1..k : argv[n - 3 - k + i] = extra.items[i]
            /\ Truthy(jump) =>
                  \E i \in 2..(n - 3 - k) :
                      argv[i - 1] = Str(<<"-J">>) /\ argv[i] = jump
            /\ SubSeq(argv, 2, 1 + Len(EPHEMERAL_DEFAULTS)) = EPHEMERAL_DEFAULTS

\* an argument vector with a user, hence a user@host target, and two
\* extra_opts entries
C6_Witness ==
    /\ pc = "done"
    /\ data["user"] = Str(<<"alice">>)
    /\ data["extra_opts"] = PyList(<<Str(<<"-v">>), Str(<<"-4">>)>>)
    /\ Len(argv) = 16

\* the directory's working directory, against which a relative path resolves
CWD == <<"/", "srv">>

\* the segments of a path: the runs of chunks between "/" chunks
RECURSIVE Segments(_)
Segments(s) ==
    IF s = <<>> THEN << <<>> >>
    ELSE IF Head(s) = "/" THEN << <<>> >> \o Segments(Tail(s))
    ELSE LET r == Segments(Tail(s))
         IN  << <<Head(s)>> \o Head(r) >> \o Tail(r)

\* the segments left once "", "." and ".." are resolved, from the root
RECURSIVE ResolveSegs(_, _)
ResolveSegs(segs, stack) ==
    IF segs = <<>> THEN stack
    ELSE LET g == Head(segs)
         IN  IF g = <<>> \/ g = <<".">>
             THEN ResolveSegs(Tail(segs), stack)
             ELSE IF g = <<".", ".">>
             THEN ResolveSegs(Tail(segs),
                              IF stack = <<>> THEN stack
                              ELSE SubSeq(stack, 1, Len(stack) - 1))
             ELSE ResolveSegs(Tail(segs), Append(stack, g))

RECURSIVE JoinSegs(_)
JoinSegs(segs) ==
    IF segs = <<>> THEN <<>> ELSE <<"/">> \o Head(segs) \o JoinSegs(Tail(segs))

\* the location a path string names: home expanded, made absolute, "."
\* and ".." segments resolved
Resolved(v) ==
    LET e == expanduser(v)
        chunks == IF e.pad = 0 THEN e.s ELSE e.s \o <<"x..">>
        abs == IF Len(chunks) > 0 /\ chunks[1] = "/" THEN chunks
               ELSE CWD \o <<"/">> \o chunks
        segs == ResolveSegs(Segments(abs), <<>>)
    IN  Str(IF segs = <<>> THEN <<"/">> ELSE JoinSegs(segs))

HasParentSegment(v) == \E i \in 1..Len(Segments(v.s)) : Segments(v.s)[i] = <<".", ".">>

UnderAllowedPrefix(v) == \E prefix \in allowed_prefixes : StartsWith(v, prefix)

\* C7: every ssh_dir string with a ".." segment that does not resolve to a
\* location under /home/, /Users/ or the user's home is rejected with
\* "SSH directory path not allowed", whatever the filesystem holds.
C7_TraversalRejected ==
    (dirVerdict # NotRun
     /\ HasParentSegment(data["ssh_dir"])
     /\ ~UnderAllowedPrefix(Resolved(data["ssh_dir"])))
    => dirVerdict = MsgNotAllowed

----------------------------------------------------------------------------
(* exec_ssh: the child process.  Wall-clock time is outside the model: the *)
(* timeout of communicate() may expire at any moment the child is running, *)
(* and duration_seconds is a reading of the clock the model does not hold. *)

Elapsed == [t |-> "elapsed"]

\* what a child that runs to its end leaves: exit status, stdout, stderr
ChildOutcomes ==
    {[rc |-> 0, out |-> Str(<<"up 3 days", "\n">>), err |-> Str(<<>>)],
     [rc |-> 1, out |-> Str(<<"partial">>), err |-> Str(<<"failed">>)],
     [rc |-> 124, out |-> Str(<<>>), err |-> Str(<<"timeout">>)],
     [rc |-> 255, out |-> Str(<<>>), err |-> Str(<<"ssh: connect refused">>)]}

\* what a child has written to its pipes when the timeout expires
PartialOutputs == {Str(<<>>), Str(<<"partial">>)}

\* the value returned on timeout, with the exit code of the shell's `timeout`
\* replaced by a plain failure
TimeoutResultPlainFailure ==
    [exit_code |-> PyInt(1), stdout |-> Str(<<>>), stderr |-> Str(<<"timeout">>),
     duration_seconds |-> Elapsed]

\* the value returned on timeout, lines 52-53
TimeoutResult ==
    [exit_code |-> PyInt(124), stdout |-> Str(<<>>), stderr |-> Str(<<"timeout">>),
     duration_seconds |-> Elapsed]

\* the value returned on completion, lines 55-60
CompletedResult(c) ==
    [exit_code |-> PyInt(c.rc), stdout |-> c.out, stderr |-> c.err,
     duration_seconds |-> Elapsed]

----------------------------------------------------------------------------
(* HTTP adapter, api.py *)

\* SSH_DIR of api.py with the environment variable unset: expanduser("~/.ssh")
HTTP_SSH_DIR == expanduser(Str(<<"~", "/", ".", "ssh">>))

\* the key lists API_KEYS may hold
ApiKeyConfigs == {<<>>, <<Str(<<"k1">>), Str(<<"k2">>)>>}

\* jwt.decode(token, JWT_SECRET, algorithms=["HS256"]): the tokens of the
\* model and what the library finds
JwtDecode(token) ==
    CASE token = Str(<<"tok.valid">>) -> "payload"
      \* a token whose signature verifies and whose payload is {}
      [] token = Str(<<"tok.empty">>) -> "empty payload"
      [] token = Str(<<"tok.expired">>) -> "ExpiredSignatureError"
      [] OTHER -> "InvalidTokenError"

\* value.split(" ", 1)[1] of a header that starts with `scheme `
AfterScheme(v) == [t |-> "str", s |-> SubSeq(v.s, 3, Len(v.s)), pad |-> v.pad]

\* TRUE when verify_jwt returns a payload that `auth_jwt or auth_key` takes
\* for true: None and the payload {} are not
verify_jwt(auth_header) ==
    /\ Truthy(auth_header)
    /\ StartsWith(auth_header, <<"Bearer", " ">>)
    /\ JwtDecode(AfterScheme(auth_header)) = "payload"

\* a character outside ASCII, as a header value decoded as latin-1 may hold
NonAsciiChar == "U+00E9"

IsAscii(v) == \A i \in 1..Len(v.s) : v.s[i] # NonAsciiChar

\* the loop over API_KEYS, lines 190-196: hmac.compare_digest raises
\* TypeError on a str that is not ASCII
RECURSIVE ApiKeyLoop(_, _, _)
ApiKeyLoop(key, keys, i) ==
    IF i > Len(keys) THEN "False"
    ELSE IF ~IsAscii(key) \/ ~IsAscii(keys[i]) THEN "TypeError"
    ELSE IF key = keys[i] THEN "True"
    ELSE ApiKeyLoop(key, keys, i + 1)

\* how verify_api_key ends: "True", "False", or the exception it raises
ApiKeyOutcome(headers, keys) ==
    LET x == Get(headers, "X-API-Key")
        auth == GetDefault(headers, "Authorization", Str(<<>>))
        key == IF Truthy(x) THEN x
               ELSE IF StartsWith(auth, <<"ApiKey", " ">>) THEN AfterScheme(auth)
               ELSE x
    IN  IF ~Truthy(key) \/ Len(keys) = 0
        THEN "False"
        ELSE ApiKeyLoop(key, keys, 1)

\* TRUE when verify_api_key returns True
verify_api_key(headers, keys) == ApiKeyOutcome(headers, keys) = "True"

AuthorizationValues ==
    {Absent, Str(<<"Bearer", " ", "tok.valid">>), Str(<<"Bearer", " ", "tok.expired">>),
     Str(<<"Bearer", " ", "tok.forged">>), Str(<<"Bearer", " ", "tok.empty">>),
     Str(<<"ApiKey", " ", "k2">>), Str(<<"ApiKey", " ", "zz">>),
     Str(<<"ApiKey", " ", NonAsciiChar>>)}

ApiKeyHeaderValues ==
    {Absent, Str(<<"k1">>), Str(<<"zz">>), Str(<<>>), Str(<<"k", NonAsciiChar>>)}

\* the argument maps the adapters are driven with
RequestArgs ==
    {BaseRequest,
     [BaseRequest EXCEPT !["host"] = Absent],
     [BaseRequest EXCEPT !["command"] = Str(<<" ">>)],
     [BaseRequest EXCEPT !["port"] = PyInt(22)],
     [BaseRequest EXCEPT !["port"] = PyInt(0)],
     [BaseRequest EXCEPT !["timeout"] = PyInt(5)],
     [BaseRequest EXCEPT !["timeout"] = PyInt(MAX_TIMEOUT + 1)],
     [BaseRequest EXCEPT !["user"] = Str(<<"alice">>)],
     [BaseRequest EXCEPT !["ssh_dir"] = Null],
     [BaseRequest EXCEPT !["ssh_dir"] = Str(<<>>)],
     [BaseRequest EXCEPT !["ssh_dir"] = Str(<<"~", "/", ".", "ssh">>)],
     [BaseRequest EXCEPT !["ssh_dir"] = Str(<<"/", "etc", "/", "ssh">>)],
     [BaseRequest EXCEPT !["ssh_dir"] = Str(<<"/", "home", "/", ".", ".", "/", "etc">>)],
     [BaseRequest EXCEPT !["ssh_dir"] = Padded(<<"/", "home", "/">>, MAX_SSH_DIR_LENGTH + 1)],
     [BaseRequest EXCEPT !["extra_opts"] = PyList(<<Str(<<"-v">>)>>)],
     [BaseRequest EXCEPT !["user"] = Str(<<"alice">>), !["port"] = PyInt(2222),
                         !["strict_host_key_checking"] = Str(<<"accept-new">>),
                         !["proxy_jump"] = Str(<<"jump.example.com">>),
                         !["allocate_tty"] = PyBool(TRUE),
                         !["extra_opts"] = PyList(<<Str(<<"-v">>), Str(<<"-4">>)>>)]}

\* request bodies: too large, not JSON by content type, malformed JSON, the
\* JSON value null, a JSON array, a JSON object
HttpBodies ==
    {[kind |-> k] : k \in {"oversized", "notjson", "malformed", "null", "array"}}
    \cup {[kind |-> "object", data |-> d] : d \in RequestArgs}

HttpRequests ==
    {[headers |-> [h \in {"Authorization", "X-API-Key"} |->
                      IF h = "Authorization" THEN a ELSE k],
      body |-> b] : a \in AuthorizationValues, k \in ApiKeyHeaderValues, b \in HttpBodies}

\* jsonify({"error": message}), status_code
error_response(message, status_code) ==
    [status |-> status_code, body |-> [error |-> message]]

\* a run_cmd that has not responded and goes on to exec_ssh
Proceed(d, pv, dv, f, kw) ==
    [resp |-> Null, data |-> d, pv |-> pv, dv |-> dv, fs |-> f, kwargs |-> kw]

\* a handler that responds without calling exec_ssh
Respond(r, d, pv, dv, f) ==
    [resp |-> r, data |-> d, pv |-> pv, dv |-> dv, fs |-> f, kwargs |-> Null]

\* run_cmd's directory step (lines 254-261) answering with the directory
\* error ignored
RunCmdSshDirUnchecked(d, f) ==
    LET ssh_dir == GetDefault(d, "ssh_dir", HTTP_SSH_DIR)
    IN  IF Truthy(ssh_dir)
        THEN Proceed(d, Null, validate_ssh_directory(ssh_dir, f), f,
                     Kwargs(d, expanduser(ssh_dir)))
        ELSE Proceed(d, Null, NotRun, NoFs, Kwargs(d, ssh_dir))

\* run_cmd from the directory step to the call of exec_ssh, lines 254-279
RunCmdSshDir(d, f) ==
    LET ssh_dir == GetDefault(d, "ssh_dir", HTTP_SSH_DIR)
        ssh_dir_error == validate_ssh_directory(ssh_dir, f)
    IN  IF Truthy(ssh_dir)
        THEN IF Truthy(ssh_dir_error)
             THEN Respond(error_response(ssh_dir_error, 400), d, Null, ssh_dir_error, f)
             ELSE Proceed(d, Null, ssh_dir_error, f, Kwargs(d, expanduser(ssh_dir)))
        ELSE Proceed(d, Null, NotRun, NoFs, Kwargs(d, ssh_dir))

\* before_request and run_cmd up to the call of exec_ssh, lines 198-279
RunCmdEnter(request, keys, f) ==
    LET body == request.body
        early(r) == Respond(r, EmptyArgs, NotRun, NotRun, NoFs)
    IN  IF body.kind = "oversized"
        THEN early(error_response(Str(<<"Request too large">>), 413))
        ELSE IF ApiKeyOutcome(request.headers, keys) = "TypeError"
        \* raised at line 230, outside every try: Flask answers with a 500
        THEN early([status |-> 500, body |-> [error |-> Str(<<"Internal Server Error">>)]])
        ELSE IF ~(verify_jwt(Get(request.headers, "Authorization"))
                  \/ verify_api_key(request.headers, keys))
        THEN early(error_response(Str(<<"unauthorized">>), 401))
        ELSE IF body.kind = "notjson"
        THEN early(error_response(Str(<<"Content-Type must be application/json">>), 400))
        ELSE IF body.kind = "malformed"
        THEN early(error_response(Str(<<"Invalid JSON format">>), 400))
        ELSE IF body.kind = "null"
        THEN early(error_response(Str(<<"Invalid JSON in request body">>), 400))
        ELSE IF body.kind = "array"
        \* data.get raises AttributeError, which Flask answers with a 500
        THEN early([status |-> 500, body |-> [error |-> Str(<<"Internal Server Error">>)]])
        ELSE LET validation_error == validate_ssh_parameters(body.data)
             IN  IF Truthy(validation_error)
                 THEN Respond(error_response(validation_error, 400), body.data,
                              validation_error, NotRun, NoFs)
                 ELSE RunCmdSshDir(body.data, f)

\* what run_cmd answers when exec_ssh returns, line 287
RunCmdResult(r) == [status |-> 200, body |-> r]

\* what run_cmd answers when exec_ssh raises, lines 289-299
RunCmdException(e) ==
    CASE e.type = "TimeoutExpired" ->
            error_response(Str(<<"SSH command timed out">>), 504)
      [] e.type = "CalledProcessError" ->
            error_response(Concat(Str(<<"SSH execution failed: ">>), e.msg), 500)
      [] OTHER ->
            error_response(Concat(Str(<<"Internal server error: ">>), e.msg), 500)

----------------------------------------------------------------------------
(* JSON-RPC adapter, mcp/server.py *)

INVALID_PARAMS == -32602
INTERNAL_ERROR == -32603
PARSE_ERROR == -32700
INVALID_REQUEST == -32600
METHOD_NOT_FOUND == -32601
SSH_CONNECTION_ERROR == -32001
SSH_TIMEOUT_ERROR == -32002
SSH_VALIDATION_ERROR == -32003
SSH_DIRECTORY_ERROR == -32004

JSONRPC == Str(<<"2.0">>)

\* os.environ.get("SSH_DIR", "") with the environment variable unset
MCP_SSH_DIR == Str(<<>>)

\* a JSON-RPC response object; a key the object lacks is Absent
jr(id_, result, error) ==
    IF error # Null
    THEN [jsonrpc |-> JSONRPC, id |-> id_, error |-> error, result |-> Absent]
    ELSE [jsonrpc |-> JSONRPC, id |-> id_, error |-> Absent, result |-> result]

jerr(id_, code, message) == jr(id_, Null, [code |-> code, message |-> message])

\* the response to a line json.loads rejects, given an id like every other
\* response
ParseErrorResponseWithId ==
    jerr(Null, PARSE_ERROR, Str(<<"Parse error: Invalid JSON">>))

\* the response to a line json.loads rejects, line 393
ParseErrorResponse ==
    [jsonrpc |-> JSONRPC, id |-> Absent,
     error |-> [code |-> PARSE_ERROR, message |-> Str(<<"Parse error: Invalid JSON">>)],
     result |-> Absent]

InitializeResult == [t |-> "obj", protocolVersion |-> Str(<<"2024-11-05">>)]

ToolsListResult == [t |-> "obj", tools |-> <<Str(<<"ssh">>)>>]

\* the result of tools/call, lines 307-319
ToolsCallResult(host, r) ==
    [t |-> "obj",
     text |-> Concat(Concat(Concat(Concat(Concat(Concat(Concat(Concat(
                Str(<<"SSH command completed on ">>), host),
                Str(<<":\n", "Exit code: ">>)), PyStr(r.exit_code)),
                Str(<<"\n", "Duration: ", "<elapsed>", "s\n", "Stdout: ">>)), r.stdout),
                Str(<<"\n", "Stderr: ">>)), r.stderr), Str(<<>>)),
     isError |-> r.exit_code # PyInt(0)]

ValueError(msg) == [type |-> "ValueError", msg |-> msg]

AttributeError ==
    [type |-> "AttributeError", msg |-> Str(<<"object has no attribute 'get'">>)]

\* Popen raising when the ssh binary cannot be executed
SpawnError ==
    [type |-> "FileNotFoundError", msg |-> Str(<<"No such file or directory: 'ssh'">>)]

\* handle's except clauses with every ValueError answered as invalid params,
\* whatever its text
HandleExceptionByTypeOnly(id_, e) ==
    CASE e.type = "ValueError" -> jerr(id_, INVALID_PARAMS, e.msg)
      [] e.type = "KeyError" ->
            jerr(id_, INVALID_PARAMS, Concat(Str(<<"Missing required parameter: ">>), e.msg))
      [] e.type = "TimeoutExpired" ->
            jerr(id_, SSH_TIMEOUT_ERROR, Str(<<"SSH command timed out">>))
      [] OTHER ->
            jerr(id_, INTERNAL_ERROR, Concat(Str(<<"Internal server error: ">>), e.msg))

\* handle's except clauses, lines 358-381
HandleException(id_, e) ==
    CASE e.type = "ValueError" ->
            IF Contains(e.msg, <<"Invalid parameters:">>)
            THEN jerr(id_, SSH_VALIDATION_ERROR, e.msg)
            ELSE IF Contains(e.msg, <<"SSH directory error:">>)
            THEN jerr(id_, SSH_DIRECTORY_ERROR, e.msg)
            ELSE jerr(id_, INVALID_PARAMS, e.msg)
      [] e.type = "KeyError" ->
            jerr(id_, INVALID_PARAMS, Concat(Str(<<"Missing required parameter: ">>), e.msg))
      [] e.type = "TimeoutExpired" ->
            jerr(id_, SSH_TIMEOUT_ERROR, Str(<<"SSH command timed out">>))
      [] e.type = "CalledProcessError" ->
            jerr(id_, SSH_CONNECTION_ERROR, Concat(Str(<<"SSH command failed: ">>), e.msg))
      [] OTHER ->
            jerr(id_, INTERNAL_ERROR, Concat(Str(<<"Internal server error: ">>), e.msg))

\* _id with the substitution of 0 for None left out
HandleIdUnsubstituted(r) == Get(r, "id")

\* _id, lines 341-344
HandleId(r) == IF Get(r, "id") = Null THEN PyInt(0) ELSE Get(r, "id")

\* a call that raises
Raise(e, d, pv, dv, f) ==
    [resp |-> Null, exc |-> e, data |-> d, pv |-> pv, dv |-> dv, fs |-> f,
     kwargs |-> Null]

\* a call that returns a result without running a process
Return(r) ==
    [resp |-> r, exc |-> Null, data |-> EmptyArgs, pv |-> NotRun, dv |-> NotRun,
     fs |-> NoFs, kwargs |-> Null]

\* a call that goes on to exec_ssh
CallExecSsh(d, pv, dv, f, kw) ==
    [resp |-> Null, exc |-> Null, data |-> d, pv |-> pv, dv |-> dv, fs |-> f,
     kwargs |-> kw]

\* mcp_tools_call from the directory step to the call of exec_ssh, lines 284-304
ToolsCallSshDir(d, f) ==
    LET ssh_dir == IF Truthy(Get(d, "ssh_dir")) THEN Get(d, "ssh_dir") ELSE MCP_SSH_DIR
        ssh_dir_error == validate_ssh_directory(ssh_dir, f)
    IN  IF Truthy(ssh_dir)
        THEN IF Truthy(ssh_dir_error)
             THEN Raise(ValueError(Concat(Str(<<"SSH directory error:", " ">>),
                                          ssh_dir_error)),
                        d, Null, ssh_dir_error, f)
             ELSE CallExecSsh(d, Null, ssh_dir_error, f, Kwargs(d, expanduser(ssh_dir)))
        ELSE CallExecSsh(d, Null, NotRun, NoFs, Kwargs(d, ssh_dir))

\* mcp_tools_call up to the call of exec_ssh, lines 273-304
ToolsCallEnter(params, f) ==
    IF params.t # "obj"
    THEN Raise(AttributeError, EmptyArgs, NotRun, NotRun, NoFs)
    ELSE LET name == Get(params, "name")
             given == Get(params, "arguments")
             arguments == IF Truthy(given) THEN given ELSE [t |-> "map", m |-> EmptyArgs]
         IN  IF name # Str(<<"ssh">>)
             THEN Raise(ValueError(Concat(Str(<<"Unknown tool: ">>), PyStr(name))),
                        EmptyArgs, NotRun, NotRun, NoFs)
             ELSE IF arguments.t # "map"
             THEN Raise(AttributeError, EmptyArgs, NotRun, NotRun, NoFs)
             ELSE LET validation_error == validate_ssh_parameters(arguments.m)
                  IN  IF Truthy(validation_error)
                      THEN Raise(ValueError(Concat(Str(<<"Invalid parameters:", " ">>),
                                                   validation_error)),
                                 arguments.m, validation_error, NotRun, NoFs)
                      ELSE ToolsCallSshDir(arguments.m, f)

EmptyParams == [t |-> "obj", name |-> Absent, arguments |-> Absent]

\* handle up to its return or to the call of exec_ssh, lines 333-356; the
\* outcome carries the exception mcp_tools_call raised, if any
HandleEnter(r, f) ==
    IF r.t # "obj" \/ Get(r, "jsonrpc") # JSONRPC
    THEN LET req_id == IF r.t = "obj" THEN Get(r, "id") ELSE PyInt(0)
         IN  Return(jerr(IF req_id = Null THEN PyInt(0) ELSE req_id,
                         INVALID_REQUEST, Str(<<"Invalid Request">>)))
    ELSE LET method == Get(r, "method")
             id_ == HandleId(r)
             params == IF Truthy(Get(r, "params")) THEN Get(r, "params") ELSE EmptyParams
         IN  IF method = Str(<<"initialize">>)
             THEN Return(jr(id_, InitializeResult, Null))
             ELSE IF method = Str(<<"tools/list">>)
             THEN Return(jr(id_, ToolsListResult, Null))
             ELSE IF method = Str(<<"tools/call">>)
             THEN ToolsCallEnter(params, f)
             ELSE Return(jerr(id_, METHOD_NOT_FOUND,
                              Concat(Str(<<"Method not found: ">>), PyStr(method))))

\* the JSON-RPC values the server is driven with
RequestIds == {Absent, Null, PyInt(0), PyInt(7), Str(<<"abc">>)}

ToolsCallParams ==
    {Absent, PyList(<<PyInt(1)>>),
     [t |-> "obj", name |-> Str(<<"scp">>), arguments |-> Absent],
     [t |-> "obj", name |-> Absent, arguments |-> Absent],
     [t |-> "obj", name |-> Str(<<"ssh">>), arguments |-> Null],
     [t |-> "obj", name |-> Str(<<"ssh">>), arguments |-> PyList(<<PyInt(1)>>)],
     [t |-> "obj", name |-> Str(<<"ssh">>), arguments |-> [t |-> "map", m |-> EmptyArgs]],
     [t |-> "obj", name |-> Str(<<"Invalid parameters:", " ", "ssh">>),
      arguments |-> [t |-> "map", m |-> BaseRequest]],
     [t |-> "obj", name |-> Str(<<"SSH directory error:">>),
      arguments |-> [t |-> "map", m |-> BaseRequest]],
     [t |-> "obj", name |-> Str(<<"ssh">>),
      arguments |-> [t |-> "map", m |->
          [BaseRequest EXCEPT !["ssh_dir"] = Str(<<"~", "/", "Invalid parameters:">>)]]]}
    \cup {[t |-> "obj", name |-> Str(<<"ssh">>), arguments |-> [t |-> "map", m |-> d]] :
             d \in RequestArgs}

JsonValues ==
    {PyInt(1), PyList(<<>>)}
    \cup {[t |-> "obj", jsonrpc |-> j, id |-> i, method |-> Str(<<"initialize">>),
           params |-> Absent] : j \in {Absent, Str(<<"1.0">>)}, i \in RequestIds}
    \cup {[t |-> "obj", jsonrpc |-> JSONRPC, id |-> i, method |-> m, params |-> Absent] :
             i \in RequestIds,
             m \in {Str(<<"initialize">>), Str(<<"tools/list">>), Str(<<"ping">>), Absent}}
    \cup {[t |-> "obj", jsonrpc |-> JSONRPC, id |-> i, method |-> Str(<<"tools/call">>),
           params |-> [t |-> "obj", name |-> n, arguments |-> [t |-> "map", m |-> BaseRequest]]] :
             i \in RequestIds, n \in {Str(<<"ssh">>), Str(<<"scp">>)}}
    \cup {[t |-> "obj", jsonrpc |-> JSONRPC, id |-> i, method |-> Str(<<"tools/call">>),
           params |-> q] : i \in {Null, PyInt(7)}, q \in ToolsCallParams}

\* the lines stdin may deliver: blank after strip(), not JSON, or a JSON value
Lines ==
    {[kind |-> "blank"], [kind |-> "bad"]}
    \cup {[kind |-> "json", value |-> v] : v \in JsonValues}

\* how many lines stdin delivers before it ends
MaxLines == 2

----------------------------------------------------------------------------
(* The two servers *)

Init ==
    /\ mode \in {"http", "mcp"}
    /\ apiKeys \in (IF mode = "http" THEN ApiKeyConfigs ELSE {<<>>})
    /\ pc = "idle"
    /\ req = Null
    /\ data = EmptyArgs
    /\ paramsVerdict = NotRun
    /\ dirVerdict = NotRun
    /\ fs = NoFs
    /\ kwargs = Null
    /\ argv = <<>>
    /\ child = NoChild
    /\ res = Null
    /\ resp = Null
    /\ consumed = <<>>
    /\ stdout = <<>>
    /\ handleCalls = 0

\* Requests share no state (section 5 of the specification; api.py keeps
\* none between calls), so a run of the HTTP server is one request.

\* GET /healthz
Healthz ==
    /\ mode = "http" /\ pc = "idle" /\ req = Null /\ resp = Null
    /\ resp' = [status |-> 200, body |-> [ok |-> TRUE]]
    /\ UNCHANGED <<mode, apiKeys, pc, req, data, paramsVerdict, dirVerdict, fs,
                   kwargs, argv, child, res, consumed, stdout, handleCalls>>

\* POST /run: before_request and run_cmd, up to the response or to exec_ssh
RunCmd ==
    /\ mode = "http" /\ pc = "idle" /\ req = Null /\ resp = Null
    /\ \E request \in HttpRequests :
          \E f \in FsAnswers(RunCmdEnter(request, apiKeys, NoFs).dv # NotRun) :
          \E o \in {RunCmdEnter(request, apiKeys, f)} :
              /\ req' = request
              /\ data' = o.data
              /\ paramsVerdict' = o.pv
              /\ dirVerdict' = o.dv
              /\ fs' = o.fs
              /\ kwargs' = o.kwargs
              /\ resp' = o.resp
              /\ pc' = IF o.resp = Null THEN "spawn" ELSE "idle"
    /\ argv' = <<>>
    /\ child' = NoChild
    /\ res' = Null
    /\ UNCHANGED <<mode, apiKeys, consumed, stdout, handleCalls>>

\* one turn of main's loop: read a line, and for a JSON value call handle,
\* up to the printed response or to exec_ssh
MainReadLine ==
    /\ mode = "mcp" /\ pc = "idle"
    /\ Len(consumed) < MaxLines
    /\ \E line \in Lines :
          \E f \in FsAnswers(line.kind = "json" /\ HandleEnter(line.value, NoFs).dv # NotRun) :
          /\ consumed' = Append(consumed, line.kind)
          /\ argv' = <<>>
          /\ child' = NoChild
          /\ res' = Null
          /\ CASE line.kind = "blank" ->
                    UNCHANGED <<pc, req, data, paramsVerdict, dirVerdict, fs, kwargs,
                                resp, stdout, handleCalls>>
               [] line.kind = "bad" ->
                    /\ resp' = ParseErrorResponse
                    /\ stdout' = Append(stdout, Len(consumed) + 1)
                    /\ UNCHANGED <<pc, req, data, paramsVerdict, dirVerdict, fs,
                                   kwargs, handleCalls>>
               [] OTHER ->
                    \E o \in {HandleEnter(line.value, f)} :
                    \E answer \in {IF o.exc # Null
                                    THEN HandleException(HandleId(line.value), o.exc)
                                    ELSE o.resp} :
                        /\ req' = line.value
                        /\ handleCalls' = handleCalls + 1
                        /\ data' = o.data
                        /\ paramsVerdict' = o.pv
                        /\ dirVerdict' = o.dv
                        /\ fs' = o.fs
                        /\ kwargs' = o.kwargs
                        /\ resp' = answer
                        /\ IF answer = Null
                           THEN pc' = "spawn" /\ UNCHANGED stdout
                           ELSE /\ pc' = "idle"
                                /\ stdout' = Append(stdout, Len(consumed) + 1)
    /\ UNCHANGED <<mode, apiKeys>>

\* the adapter's response once exec_ssh has returned r
AdapterResult(r) ==
    IF mode = "http"
    THEN RunCmdResult(r)
    ELSE jr(HandleId(req), ToolsCallResult(data["host"], r), Null)

\* the adapter's response once exec_ssh has raised e
AdapterException(e) ==
    IF mode = "http" THEN RunCmdException(e) ELSE HandleException(HandleId(req), e)

\* the response is built and the handler ends, but nothing is written
SendNothing(r) ==
    /\ resp' = r
    /\ pc' = "idle"
    /\ stdout' = stdout

\* the response goes out: the HTTP response, or a line printed on stdout
\* answering the input line being handled
Send(r) ==
    /\ resp' = r
    /\ pc' = "idle"
    /\ stdout' = IF mode = "mcp" THEN Append(stdout, Len(consumed)) ELSE stdout

\* exec_ssh builds the argument vector and Popen starts the child, lines 18-47
ExecSshSpawn ==
    /\ pc = "spawn"
    /\ argv' = ExecSshArgv(kwargs, fs)
    /\ child' = [state |-> "running", rc |-> 0, out |-> Str(<<>>), err |-> Str(<<>>),
                 reaped |-> FALSE, pipes |-> TRUE]
    /\ pc' = "wait"
    /\ UNCHANGED <<mode, apiKeys, req, data, paramsVerdict, dirVerdict, fs, kwargs,
                   res, resp, consumed, stdout, handleCalls>>

\* Popen raises (no ssh binary): no child exists, the adapter answers
ExecSshSpawnFails ==
    /\ pc = "spawn"
    /\ argv' = ExecSshArgv(kwargs, fs)
    /\ Send(AdapterException(SpawnError))
    /\ UNCHANGED <<mode, apiKeys, req, data, paramsVerdict, dirVerdict, fs, kwargs,
                   child, res, consumed, handleCalls>>

\* the child runs to its end
ChildExit ==
    /\ pc = "wait" /\ child.state = "running"
    /\ \E o \in ChildOutcomes :
          child' = [child EXCEPT !.state = "exited", !.rc = o.rc, !.out = o.out,
                                 !.err = o.err]
    /\ UNCHANGED <<mode, apiKeys, pc, req, data, paramsVerdict, dirVerdict, fs,
                   kwargs, argv, res, resp, consumed, stdout, handleCalls>>

\* communicate() returns: the child is reaped, its pipes read and closed;
\* exec_ssh returns and the adapter answers, lines 49 and 55-60
ExecSshCompletes ==
    /\ pc = "wait" /\ child.state = "exited"
    /\ child' = [child EXCEPT !.reaped = TRUE, !.pipes = FALSE]
    /\ res' = CompletedResult(child)
    /\ Send(AdapterResult(res'))
    /\ UNCHANGED <<mode, apiKeys, req, data, paramsVerdict, dirVerdict, fs, kwargs,
                   argv, consumed, handleCalls>>

\* communicate() raises TimeoutExpired while the child still runs: the child
\* is killed, exec_ssh returns and the adapter answers, lines 50-53
ExecSshTimesOut ==
    /\ pc = "wait" /\ child.state = "running"
    /\ \E o \in PartialOutputs :
          child' = [child EXCEPT !.state = "killed", !.rc = -9, !.out = o]
    /\ res' = TimeoutResult
    /\ Send(AdapterResult(res'))
    /\ UNCHANGED <<mode, apiKeys, req, data, paramsVerdict, dirVerdict, fs, kwargs,
                   argv, consumed, handleCalls>>

Next ==
    \/ Healthz
    \/ RunCmd
    \/ MainReadLine
    \/ ExecSshSpawn
    \/ ExecSshSpawnFails
    \/ ChildExit
    \/ ExecSshCompletes
    \/ ExecSshTimesOut

Spec == Init /\ [][Next]_vars

----------------------------------------------------------------------------
(* Properties of the two servers *)

IsErrorResponse(r) ==
    r # Null /\ (IF mode = "http" THEN r.status >= 400 ELSE r.error # Absent)

\* C1: in both adapters a child process exists only once
\* validate_ssh_parameters has returned valid for the request and
\* validate_ssh_directory has returned valid for the resolved ssh_dir (which
\* it does without being asked when there is none); a request that fails
\* either check has an error response and no process.
C1_SpawnOnlyAfterValidation ==
    /\ (pc \in {"spawn", "wait"} \/ child.state # "none") =>
          /\ paramsVerdict = Null
          /\ dirVerdict = Null \/ (dirVerdict = NotRun /\ ~Truthy(kwargs.ssh_dir))
    /\ (IsStr(paramsVerdict) \/ IsStr(dirVerdict)) =>
          /\ child.state = "none"
          /\ argv = <<>>
          /\ pc = "idle"
          /\ IsErrorResponse(resp)

\* a child started for a request that passed both checks
C1_Witness ==
    /\ child.state = "running"
    /\ paramsVerdict = Null
    /\ dirVerdict = Null
    /\ Truthy(kwargs.ssh_dir)

\* C4: when the timeout expires on a running child, exec_ssh kills it and
\* returns exit code 124, stdout "" and stderr "timeout", whatever the child
\* wrote; when the child finished, exec_ssh returns the child's exit code
\* and output.
C4_TimeoutSentinel ==
    /\ res # Null =>
          IF child.state = "killed"
          THEN /\ res.exit_code = PyInt(124)
               /\ res.stdout = Str(<<>>)
               /\ res.stderr = Str(<<"timeout">>)
          ELSE /\ child.state = "exited"
               /\ res.exit_code = PyInt(child.rc)
               /\ res.stdout = child.out
               /\ res.stderr = child.err
    /\ child.state = "killed" => res # Null

\* the timeout expired on a child that had already written output
C4_Witness ==
    /\ child.state = "killed"
    /\ child.out = Str(<<"partial">>)
    /\ res # Null

\* C5: a child-process timeout is answered with HTTP status 504 by the HTTP
\* adapter and with an error object of code -32002 by the JSON-RPC adapter.
C5_TimeoutHasOwnStatus ==
    (child.state = "killed" /\ resp # Null) =>
        IF mode = "http"
        THEN resp.status = 504
        ELSE resp.error # Absent /\ resp.error.code = -32002

\* the input lines among the first n that are not blank, in order
RECURSIVE NonBlank(_)
NonBlank(n) ==
    IF n = 0 THEN <<>>
    ELSE IF consumed[n] = "blank" THEN NonBlank(n - 1)
    ELSE Append(NonBlank(n - 1), n)

\* the input lines main has finished with
Finished == IF pc = "idle" THEN Len(consumed) ELSE Len(consumed) - 1

\* C8 as claimed: one response line for every input line, in input order.
C8_OneResponsePerLine ==
    mode = "mcp" => stdout = [i \in 1..Finished |-> i]

\* C8 as amended: one response line for every input line that is not blank
\* after strip(), in input order, each written before the next line is read;
\* a blank line is skipped without a response.
C8_OneResponsePerNonBlankLine ==
    mode = "mcp" => stdout = NonBlank(Finished)

\* a blank line went unanswered and the request after it was answered
C8_Witness ==
    /\ mode = "mcp" /\ pc = "idle"
    /\ consumed = <<"blank", "json">>
    /\ stdout = <<2>>
    /\ child.state = "exited"

LastLine == IF consumed = <<>> THEN "none" ELSE consumed[Len(consumed)]

\* C9: every response handle() produces carries a non-null id: the
\* request's id when it has a non-null one, and 0 when the id is missing or
\* null.
C9_ResponseIdNeverNull ==
    (mode = "mcp" /\ pc = "idle" /\ LastLine = "json") =>
        /\ resp.id # Null /\ resp.id # Absent
        /\ resp.id = IF req.t = "obj" /\ Get(req, "id") # Null
                     THEN req["id"] ELSE PyInt(0)

\* a successful response with id 0 to a request whose id is null
C9_Witness ==
    /\ mode = "mcp" /\ pc = "idle" /\ LastLine = "json"
    /\ req.t = "obj" /\ req["id"] = Null
    /\ resp.id = PyInt(0)
    /\ resp.result # Absent

\* C10: a line that is not JSON is answered with an error object of code
\* -32700 that has no id key; handle() is not called for it, and the loop
\* goes on to the next line.
C10_ParseErrorHasNoId ==
    /\ mode = "mcp" =>
          handleCalls = Cardinality({i \in 1..Len(consumed) : consumed[i] = "json"})
    /\ (mode = "mcp" /\ LastLine = "bad") =>
          /\ resp.id = Absent
          /\ resp.result = Absent
          /\ resp.error.code = -32700
          /\ stdout # <<>> /\ stdout[Len(stdout)] = Len(consumed)
          /\ pc = "idle"
          /\ Len(consumed) < MaxLines => ENABLED MainReadLine

\* a request answered, then a line that is not JSON answered without an id
C10_Witness ==
    /\ mode = "mcp"
    /\ consumed = <<"json", "bad">>
    /\ resp.id = Absent
    /\ stdout = <<1, 2>>
    /\ handleCalls = 1

\* a parsed request with a valid envelope that calls a tool
IsToolsCall(r) ==
    /\ r.t = "obj"
    /\ r.jsonrpc = JSONRPC
    /\ r.method = Str(<<"tools/call">>)
    /\ r.params.t = "obj"

\* C11: a tools/call request naming the tool "ssh" whose arguments object
\* validate_ssh_parameters rejects is answered with an error object of code
\* -32003, never with -32603, -32602 or a result, and runs no process.
C11_RejectedArgumentsGetValidationCode ==
    (/\ mode = "mcp" /\ LastLine = "json"
     /\ IsToolsCall(req)
     /\ req.params.name = Str(<<"ssh">>)
     /\ req.params.arguments.t = "map"
     /\ validate_ssh_parameters(req.params.arguments.m) # Null) =>
        /\ pc = "idle"
        /\ child.state = "none"
        /\ resp.result = Absent
        /\ resp.error # Absent
        /\ resp.error.code = SSH_VALIDATION_ERROR
        /\ resp.error.code \notin {INTERNAL_ERROR, INVALID_PARAMS}

\* a call of ssh with port 0 answered with the validation code and the
\* validator's message
C11_Witness ==
    /\ mode = "mcp" /\ pc = "idle" /\ LastLine = "json"
    /\ IsToolsCall(req)
    /\ req.params.name = Str(<<"ssh">>)
    /\ req.params.arguments.t = "map"
    /\ req.params.arguments.m["port"] = PyInt(0)
    /\ resp.error # Absent
    /\ resp.error.code = SSH_VALIDATION_ERROR
    /\ resp.error.message = Concat(Str(<<"Invalid parameters:", " ">>), MsgPort)

\* the code a failed tools/call is answered with; 0 when it is not an error
ErrorCode == IF resp # Null /\ resp.error # Absent THEN resp.error.code ELSE 0

\* C12: the error code of a failed tools/call follows the class of the
\* failure and not the text of caller-supplied values: a request
\* validate_ssh_directory rejects is answered with -32004 and a request
\* naming an unknown tool with -32602, whatever the ssh_dir string and the
\* tool name contain.
C12_ErrorCodeByFailureClass ==
    (mode = "mcp" /\ pc = "idle" /\ LastLine = "json" /\ IsToolsCall(req)) =>
        /\ req.params.name # Str(<<"ssh">>) => ErrorCode = INVALID_PARAMS
        /\ (req.params.name = Str(<<"ssh">>) /\ IsStr(dirVerdict)) =>
               ErrorCode = SSH_DIRECTORY_ERROR

\* Authorization carries a bearer token whose signature and expiry verify
TokenVerifies(headers) ==
    /\ headers["Authorization"] # Absent
    /\ StartsWith(headers["Authorization"], <<"Bearer", " ">>)
    /\ JwtDecode(AfterScheme(headers["Authorization"])) \in {"payload", "empty payload"}

\* X-API-Key or `Authorization: ApiKey` carries one of the configured keys
CarriesConfiguredKey(headers, keys) ==
    \E i \in 1..Len(keys) :
        \/ headers["X-API-Key"] = keys[i]
        \/ headers["Authorization"] = Concat(Str(<<"ApiKey", " ">>), keys[i])

\* C13: a POST /run request that carries neither a bearer token that verifies
\* nor an API key equal to a configured key is answered with 401, and neither
\* parameter validation nor a process spawn takes place for it; with no
\* configured key no API key is accepted.
C13_UnauthenticatedGets401 ==
    (/\ mode = "http" /\ req # Null
     /\ ~TokenVerifies(req.headers)
     /\ ~CarriesConfiguredKey(req.headers, apiKeys)) =>
        /\ pc = "idle"
        /\ resp.status = 401
        /\ paramsVerdict = NotRun /\ dirVerdict = NotRun
        /\ child.state = "none" /\ argv = <<>>

\* C14: on every exit path of exec_ssh after the child was spawned, the
\* timeout path included, the child has been waited on and its stdout and
\* stderr pipes are closed by the time exec_ssh returns: no execution leaves
\* a killed child that was not reaped, or open pipes.
C14_ChildReapedOnEveryExit ==
    (res # Null /\ child.state # "none") =>
        /\ child.reaped
        /\ ~child.pipes

====
